---------------------------- MODULE Spec2Model ----------------------------
(***************************************************************************)
(* A model of the connection-lifecycle layer of tiny-http:                 *)
(*   - the listener / shutdown controller (src/src/lib.rs, Server),        *)
(*   - the split-stream wrapper (src/src/util/refined_tcp_stream.rs),      *)
(*   - the value types (src/src/common.rs): the header parser, the header- *)
(*     field and method tokens and their equality, the protocol version.   *)
(* Each part has its own specifications over its own group of variables;   *)
(* the other groups stay at their initial value.                           *)
(***************************************************************************)
EXTENDS Integers, Sequences, FiniteSets, TLC

(***************************************************************************)
(* Bounds of the model.                                                    *)
(***************************************************************************)
MaxHandles == 2
MaxThreads == 2
MaxBacklog == 2
MaxConns == 1
MaxLen == 5
MaxTok == 2
MaxVer == 2

Handles == 1..MaxHandles
Threads == 1..MaxThreads
\* One Arc<AtomicBool> allocation per possible Server value.
Cells == 1..MaxHandles
\* The io::Error values the operating system may answer with.
IoErrors == {"e1", "e2"}
\* The connections handed to RefinedTcpStream::new.
Conns == 1..MaxConns
Sides == {"read", "write"}
\* The characters texts are made of, by code point: 'a', 'A', ' ', ':', and
\* two characters outside ASCII (each encoded by bytes >= 0x80 only): U+00C8,
\* a letter, and U+00A0, the no-break space, which is whitespace.
Bytes == {97, 65, 32, 58, 200, 160}

VARIABLES
    \* ---- Server (lib.rs) ----
    hstate,            \* hstate[h]: "free" | "live" | "dropped"  (a Server value)
    flagOf,            \* flagOf[h]: the AtomicBool cell the handle's Arc points to
    is_shutting_down,  \* is_shutting_down[c]: value of AtomicBool cell c
    backlog,           \* the listening socket's queue of pending connections
    listening,         \* the listening socket is still open (some handle holds it)
    pc,                \* pc[t]: where acceptor thread t is inside accept()
    th,                \* th[t]: the handle thread t is inside accept() on
    sdpc,              \* sdpc[h]: "none", or who runs shutdown() on h past the
                       \*          store: "explicit" (a call) or "drop" (release)
    last               \* the call that returned last: operation, handle, the raw
                       \* outcome of the system call behind it, result, and what
                       \* the caller observed

serverVars == <<hstate, flagOf, is_shutting_down, backlog, listening,
                pc, th, sdpc, last>>

VARIABLES
    \* ---- RefinedTcpStream (util/refined_tcp_stream.rs) ----
    cstate,            \* cstate[c]: "raw" (a TcpStream) | "split" | "panicked"
    half,              \* half[c][side]: the RefinedTcpStream made for that side
    alive,             \* alive[c]: the sides whose RefinedTcpStream is not released
    fds,               \* fds[c]: open handles on the connection's socket
    rd,                \* rd[c]: the read direction of the socket is open
    wr,                \* wr[c]: the write direction of the socket is open
    shuts,             \* shuts[c][dir]: shutdown(dir) calls made, and the last outcome
    lastio             \* the data-path call that returned last

streamVars == <<cstate, half, alive, fds, rd, wr, shuts, lastio>>

VARIABLES
    \* ---- Header, HeaderField, Method, HTTPVersion (common.rs) ----
    input,             \* the text handed to from_str
    parsed,            \* what from_str::<Header> returned
    token,             \* what from_str::<HeaderField> or ::<Method> returned
    other,             \* a second text: the other operand of eq / equiv
    cmp,               \* what eq / equiv returned on (input, other)
    versions,          \* versions[1], versions[2]: two HTTPVersion values
    ordering           \* what the comparisons of the two versions returned

parseVars == <<input, parsed, token, other, cmp, versions, ordering>>

vars == <<serverVars, streamVars, parseVars>>

----------------------------------------------------------------------------
(***************************************************************************)
(* Result values.                                                          *)
(***************************************************************************)
NoHalf == [close_read |-> FALSE, close_write |-> FALSE, made |-> FALSE]
NoConn == [origin |-> "-", read |-> NoHalf, write |-> NoHalf]
\* Result<ClientConnection, AcceptError>, or the panic of the calling thread.
AcceptRes(tag, err, conn) == [tag |-> tag, err |-> err, conn |-> conn]
\* Result<(), ShutdownError>
ShutRes(tag, err) == [tag |-> tag, err |-> err]
Returned(op, h, raw, res, seen) ==
    [op |-> op, h |-> h, raw |-> raw, res |-> res, seen |-> seen]

\* RefinedTcpStream::new with `close_read: true` left in the write half too.
RefinedTcpStream_new_both(dupOk) ==
    IF dupOk
    THEN [panicked |-> FALSE,
          read  |-> [close_read |-> TRUE, close_write |-> FALSE, made |-> TRUE],
          write |-> [close_read |-> TRUE, close_write |-> TRUE,  made |-> TRUE]]
    ELSE [panicked |-> TRUE, read |-> NoHalf, write |-> NoHalf]

\* RefinedTcpStream::new: the pair (read, write) of the split, or a panic when
\* the second handle cannot be obtained (try_clone().unwrap()).
RefinedTcpStream_new(dupOk) ==
    IF dupOk
    THEN [panicked |-> FALSE,
          read  |-> [close_read |-> TRUE,  close_write |-> FALSE, made |-> TRUE],
          write |-> [close_read |-> FALSE, close_write |-> TRUE,  made |-> TRUE]]
    ELSE [panicked |-> TRUE, read |-> NoHalf, write |-> NoHalf]

\* err_if_false with the test the wrong way round.
err_if_false_inverted(value, err) ==
    IF value THEN [ok |-> FALSE, err |-> err] ELSE [ok |-> TRUE, err |-> "-"]

\* err_if_false(value, err)
err_if_false(value, err) ==
    IF value THEN [ok |-> TRUE, err |-> "-"] ELSE [ok |-> FALSE, err |-> err]

\* self.is_shutting_down.load(Ordering::Relaxed)
LoadFlag(h) == is_shutting_down[flagOf[h]]

\* The store written as a toggle of the flag.
StoreFlag_toggle(h) == [is_shutting_down EXCEPT ![flagOf[h]] = ~@]

\* self.is_shutting_down.store(true, Ordering::Relaxed)
StoreFlag(h) == [is_shutting_down EXCEPT ![flagOf[h]] = TRUE]

\* A thread is inside accept(&self) on h: h is borrowed shared.
Borrowed(h) == \E t \in Threads : pc[t] = "accepting" /\ th[t] = h
\* shutdown(&mut self) and drop need h exclusively.
Exclusive(h) == hstate[h] = "live" /\ sdpc[h] = "none" /\ ~Borrowed(h)

----------------------------------------------------------------------------
(***************************************************************************)
(* Server::new: the state right after bind() returned Ok.                  *)
(***************************************************************************)
ServerStart ==
    [hstate |-> [h \in Handles |-> IF h = 1 THEN "live" ELSE "free"],
     flagOf |-> [h \in Handles |-> 1],
     is_shutting_down |-> [c \in Cells |-> FALSE],
     backlog |-> <<>>,
     listening |-> TRUE,
     pc |-> [t \in Threads |-> "idle"],
     th |-> [t \in Threads |-> 1],
     sdpc |-> [h \in Handles |-> "none"],
     last |-> Returned("new", 1, "-", AcceptRes("None", "-", NoConn), "-")]

\* try_clone giving the duplicate a flag of its own: Arc::new(AtomicBool::new(false)).
try_clone_flag_fresh(h, n) == n

\* The flag cell a duplicate gets: self.is_shutting_down.clone()
try_clone_flag(h, n) == flagOf[h]

\* Server::try_clone on handle h; n is the new Server value.
TryClone(h, n, ok) ==
    /\ hstate[h] = "live" /\ sdpc[h] = "none"
    /\ hstate[n] = "free"
    /\ \A m \in Handles : m < n => hstate[m] # "free"
    /\ IF ok
       THEN /\ hstate' = [hstate EXCEPT ![n] = "live"]
            /\ flagOf' = [flagOf EXCEPT ![n] = try_clone_flag(h, n)]
       ELSE UNCHANGED <<hstate, flagOf>>
    /\ UNCHANGED <<is_shutting_down, backlog, listening, pc, th, sdpc, last>>
    /\ UNCHANGED <<streamVars, parseVars>>

\* A client connects to the listening socket (environment).
ClientConnect ==
    /\ listening
    /\ Len(backlog) < MaxBacklog
    /\ backlog' = Append(backlog, "client")
    /\ UNCHANGED <<hstate, flagOf, is_shutting_down, listening, pc, th, sdpc, last>>
    /\ UNCHANGED <<streamVars, parseVars>>

\* Server::accept, line 57: the flag check at entry.
AcceptStart(t, h) ==
    /\ pc[t] = "idle"
    /\ hstate[h] = "live" /\ sdpc[h] = "none"
    /\ LET chk == err_if_false(~LoadFlag(h), "ShuttingDown")
       IN IF chk.ok
          THEN /\ pc' = [pc EXCEPT ![t] = "accepting"]
               /\ th' = [th EXCEPT ![t] = h]
               /\ last' = last
          ELSE /\ pc' = pc
               /\ th' = th
               /\ last' = Returned("accept", h, "-",
                                   AcceptRes(chk.err, "-", NoConn), "-")
    /\ UNCHANGED <<hstate, flagOf, is_shutting_down, backlog, listening, sdpc>>
    /\ UNCHANGED <<streamVars, parseVars>>

\* What accept() returns for a connection the listener handed over (lines 62-63).
AcceptOk(sock, dupOk) ==
    LET pair == RefinedTcpStream_new(dupOk)
    IN IF pair.panicked
       THEN AcceptRes("Panic", "-", NoConn)
       ELSE AcceptRes("Ok", "-",
                      [origin |-> sock, read |-> pair.read, write |-> pair.write])

\* Server::accept, lines 59-63: listener.accept() returns a queued connection.
AcceptReturn(t, dupOk) ==
    /\ pc[t] = "accepting"
    /\ backlog # <<>>
    /\ backlog' = Tail(backlog)
    /\ last' = Returned("accept", th[t], Head(backlog),
                        AcceptOk(Head(backlog), dupOk), "-")
    /\ pc' = [pc EXCEPT ![t] = IF AcceptOk(Head(backlog), dupOk).tag = "Panic"
                                THEN "panicked" ELSE "idle"]
    /\ th' = [th EXCEPT ![t] = 1]
    /\ UNCHANGED <<hstate, flagOf, is_shutting_down, listening, sdpc>>
    /\ UNCHANGED <<streamVars, parseVars>>

\* accept() answering every failure of the primitive with ShuttingDown.
AcceptErr_shutting_down(e) == AcceptRes("ShuttingDown", "-", NoConn)

\* What accept() returns when listener.accept() failed with e (line 60).
AcceptErr(e) == AcceptRes("Accept", e, NoConn)

\* Server::accept, lines 59-60: listener.accept() fails with an io::Error.
AcceptFail(t, e) ==
    /\ pc[t] = "accepting"
    /\ last' = Returned("accept", th[t], e, AcceptErr(e), "-")
    /\ pc' = [pc EXCEPT ![t] = "idle"]
    /\ th' = [th EXCEPT ![t] = 1]
    /\ UNCHANGED <<hstate, flagOf, is_shutting_down, backlog, listening, sdpc>>
    /\ UNCHANGED <<streamVars, parseVars>>

----------------------------------------------------------------------------
(***************************************************************************)
(* Server::shutdown and Drop for Server.  shutdown() is two steps: the     *)
(* store of the flag, then the self-dial (local_addr, connect, shutdown of *)
(* the dialled stream), whose three system calls touch nothing another     *)
(* thread reads between them except the listener's queue.                  *)
(***************************************************************************)
\* The io::Error a system call of the self-dial may fail with; shutdown()
\* only wraps it in the variant of the failing step.
DialErrors == {"e1"}
\* The outcomes of the system calls of the self-dial: each call made is "ok"
\* or an io::Error, and a call after a failed one is not made ("-").
DialOutcomes ==
    {<<"ok", "ok", "ok">>}
    \cup {<<e, "-", "-">> : e \in DialErrors}
    \cup {<<"ok", e, "-">> : e \in DialErrors}
    \cup {<<"ok", "ok", e>> : e \in DialErrors}

\* shutdown() returning Ok after the address lookup, without the self-dial.
shutdown_dial_no_connect(o) ==
    IF o[1] # "ok"
    THEN [res |-> ShutRes("LocalAddr", o[1]), steps |-> <<"local_addr">>]
    ELSE [res |-> ShutRes("Ok", "-"), steps |-> <<"local_addr">>]

\* shutdown() going on to connect after local_addr failed, and reporting the
\* first failure at the end.
shutdown_dial_connects_anyway(o) ==
    IF o[1] # "ok"
    THEN [res |-> ShutRes("LocalAddr", o[1]), steps |-> <<"local_addr", "connect">>]
    ELSE IF o[2] # "ok"
    THEN [res |-> ShutRes("Connect", o[2]), steps |-> <<"local_addr", "connect">>]
    ELSE IF o[3] # "ok"
    THEN [res |-> ShutRes("Shutdown", o[3]),
          steps |-> <<"local_addr", "connect", "shutdown">>]
    ELSE [res |-> ShutRes("Ok", "-"),
          steps |-> <<"local_addr", "connect", "shutdown">>]

\* lines 69-77: the steps of shutdown() after the store, in order, stopping at
\* the first that fails.  steps: the system calls made.
shutdown_dial(o) ==
    IF o[1] # "ok"
    THEN [res |-> ShutRes("LocalAddr", o[1]), steps |-> <<"local_addr">>]
    ELSE IF o[2] # "ok"
    THEN [res |-> ShutRes("Connect", o[2]), steps |-> <<"local_addr", "connect">>]
    ELSE IF o[3] # "ok"
    THEN [res |-> ShutRes("Shutdown", o[3]),
          steps |-> <<"local_addr", "connect", "shutdown">>]
    ELSE [res |-> ShutRes("Ok", "-"),
          steps |-> <<"local_addr", "connect", "shutdown">>]

\* Drop::drop written `self.shutdown().unwrap();`: an error escalates as a panic.
Drop_drop_unwrap(result) ==
    IF result.tag = "Ok" THEN ShutRes("Unit", "-") ELSE ShutRes("Panic", result.err)

\* Drop::drop: `let _ = self.shutdown();` -- what the releasing code observes.
Drop_drop(result) == ShutRes("Unit", "-")

\* What the caller of the operation observes when shutdown() returned result.
Observed(mode, result) == IF mode = "drop" THEN Drop_drop(result) ELSE result

\* line 67: the store, first step of shutdown(); mode says who called.
ShutdownStore(h, mode) ==
    /\ Exclusive(h)
    /\ sdpc' = [sdpc EXCEPT ![h] = mode]
    /\ is_shutting_down' = StoreFlag(h)
    /\ UNCHANGED <<hstate, flagOf, backlog, listening, pc, th, last>>
    /\ UNCHANGED <<streamVars, parseVars>>

\* lines 69-78 and, for a release, lines 96-100.
ShutdownDial(h, o) ==
    /\ sdpc[h] # "none"
    /\ LET d == shutdown_dial(o)
           dialled == Len(d.steps) >= 2 /\ o[2] = "ok"
       IN /\ IF dialled
             THEN /\ listening
                  /\ Len(backlog) < MaxBacklog
                  /\ backlog' = Append(backlog, "selfdial")
             ELSE backlog' = backlog
          /\ last' = Returned(sdpc[h], h, d.steps, d.res, Observed(sdpc[h], d.res))
    /\ sdpc' = [sdpc EXCEPT ![h] = "none"]
    /\ IF sdpc[h] = "drop"
       THEN /\ hstate' = [hstate EXCEPT ![h] = "dropped"]
            /\ listening' = (\E g \in Handles \ {h} : hstate[g] = "live")
       ELSE UNCHANGED <<hstate, listening>>
    /\ UNCHANGED <<flagOf, is_shutting_down, pc, th>>
    /\ UNCHANGED <<streamVars, parseVars>>

ServerNext ==
    \/ \E h, n \in Handles, ok \in BOOLEAN : TryClone(h, n, ok)
    \/ ClientConnect
    \/ \E t \in Threads, h \in Handles : AcceptStart(t, h)
    \/ \E t \in Threads, dupOk \in BOOLEAN : AcceptReturn(t, dupOk)
    \/ \E t \in Threads, e \in IoErrors : AcceptFail(t, e)
    \/ \E h \in Handles, mode \in {"explicit", "drop"} : ShutdownStore(h, mode)
    \/ \E h \in Handles, o \in DialOutcomes : ShutdownDial(h, o)

----------------------------------------------------------------------------
(***************************************************************************)
(* RefinedTcpStream: the two halves of one connection.                     *)
(***************************************************************************)
NoIo == [c |-> 0, side |-> "-", op |-> "none", raw |-> "-", ret |-> "-",
         calls |-> 0, alone |-> FALSE]
NoShuts == [Read |-> [n |-> 0, out |-> "-"], Write |-> [n |-> 0, out |-> "-"]]

\* The connections as accept() gets them from the listener: one handle, both
\* directions open, not split yet.
StreamStart ==
    [cstate |-> [c \in Conns |-> "raw"],
     half |-> [c \in Conns |-> [side \in Sides |-> NoHalf]],
     alive |-> [c \in Conns |-> {}],
     fds |-> [c \in Conns |-> 1],
     rd |-> [c \in Conns |-> TRUE],
     wr |-> [c \in Conns |-> TRUE],
     shuts |-> [c \in Conns |-> NoShuts],
     lastio |-> NoIo]

\* RefinedTcpStream::new on connection c; dupOk: stream.try_clone() succeeded.
\* When it failed the unwrap panics and the stream passed in is dropped.
Split(c, dupOk) ==
    /\ cstate[c] = "raw"
    /\ LET pair == RefinedTcpStream_new(dupOk)
       IN IF pair.panicked
          THEN /\ cstate' = [cstate EXCEPT ![c] = "panicked"]
               /\ fds' = [fds EXCEPT ![c] = 0]
               /\ rd' = [rd EXCEPT ![c] = FALSE]
               /\ wr' = [wr EXCEPT ![c] = FALSE]
               /\ UNCHANGED <<half, alive>>
          ELSE /\ cstate' = [cstate EXCEPT ![c] = "split"]
               /\ half' = [half EXCEPT ![c] = [read |-> pair.read, write |-> pair.write]]
               /\ alive' = [alive EXCEPT ![c] = Sides]
               /\ fds' = [fds EXCEPT ![c] = 2]
               /\ UNCHANGED <<rd, wr>>
    /\ UNCHANGED <<shuts, lastio>>
    /\ UNCHANGED <<serverVars, parseVars>>

\* What the socket may answer to one call of op (the operating system).
Outcomes(c, op) ==
    CASE op = "peer_addr" -> {"addr"} \cup IoErrors
      [] op = "read" -> (IF rd[c] THEN {"ok1"} ELSE {}) \cup {"ok0"} \cup IoErrors
      [] op = "write" -> (IF wr[c] THEN {"ok1"} ELSE {}) \cup IoErrors
      [] op = "flush" -> {"ok"} \cup IoErrors

\* read calling the socket again after a failure.
Stream_read_retry(outs) ==
    IF outs[1] \in IoErrors
    THEN [ret |-> outs[2], calls |-> 2]
    ELSE [ret |-> outs[1], calls |-> 1]

\* peer_addr, read, write, flush: outs are the answers the socket gives to
\* successive calls; the result says what the method returns and how many
\* calls it made.
Stream_peer_addr(outs) == [ret |-> outs[1], calls |-> 1]
Stream_read(outs) == [ret |-> outs[1], calls |-> 1]
Stream_write(outs) == [ret |-> outs[1], calls |-> 1]
Stream_flush(outs) == [ret |-> outs[1], calls |-> 1]

StreamCall(op, outs) ==
    CASE op = "peer_addr" -> Stream_peer_addr(outs)
      [] op = "read" -> Stream_read(outs)
      [] op = "write" -> Stream_write(outs)
      [] op = "flush" -> Stream_flush(outs)

\* A data-path call on the half `side` of connection c.
IoCall(c, side, op, outs) ==
    /\ side \in alive[c]
    /\ LET r == StreamCall(op, outs)
       IN lastio' = [c |-> c, side |-> side, op |-> op, raw |-> outs[1],
                     ret |-> r.ret, calls |-> r.calls,
                     alone |-> alive[c] = {side}]
    /\ UNCHANGED <<cstate, half, alive, fds, rd, wr, shuts>>
    /\ UNCHANGED <<serverVars, parseVars>>

\* Drop shutting down both directions whichever half is released.
Drop_shutdowns_both(hf) == <<"Read", "Write">>

\* Drop for RefinedTcpStream: the directions it calls shutdown() on, in order.
Drop_shutdowns(hf) ==
    (IF hf.close_read THEN <<"Read">> ELSE <<>>)
        \o (IF hf.close_write THEN <<"Write">> ELSE <<>>)

\* A half of connection c is released; o[dir] is what shutdown(dir) answers if
\* it is called: "ok" closes the direction, an error leaves it as it was.  The
\* outcome is ignored (.ok()); then the half's own handle on the socket is
\* closed, and the last handle closes the socket.
DropHalf(c, side, o) ==
    /\ side \in alive[c]
    /\ LET dirs == Drop_shutdowns(half[c][side])
           called(dir) == \E k \in 1..Len(dirs) : dirs[k] = dir
           last_fd == fds[c] = 1
       IN /\ \A dir \in {"Read", "Write"} : ~called(dir) => o[dir] = "-"
          /\ \A dir \in {"Read", "Write"} : called(dir) => o[dir] # "-"
          /\ shuts' = [shuts EXCEPT ![c] =
                [dir \in {"Read", "Write"} |->
                    IF called(dir)
                    THEN [n |-> shuts[c][dir].n + 1, out |-> o[dir]]
                    ELSE shuts[c][dir]]]
          /\ rd' = [rd EXCEPT ![c] =
                @ /\ ~(called("Read") /\ o["Read"] = "ok") /\ ~last_fd]
          /\ wr' = [wr EXCEPT ![c] =
                @ /\ ~(called("Write") /\ o["Write"] = "ok") /\ ~last_fd]
    /\ alive' = [alive EXCEPT ![c] = @ \ {side}]
    /\ fds' = [fds EXCEPT ![c] = @ - 1]
    /\ UNCHANGED <<cstate, half, lastio>>
    /\ UNCHANGED <<serverVars, parseVars>>

ShutOutcomes == [{"Read", "Write"} -> {"-", "ok"} \cup IoErrors]

StreamNext ==
    \/ \E c \in Conns, dupOk \in BOOLEAN : Split(c, dupOk)
    \/ \E c \in Conns, side \in Sides, op \in {"peer_addr", "read", "write", "flush"} :
          \E o1, o2 \in Outcomes(c, op) : IoCall(c, side, op, <<o1, o2>>)
    \/ \E c \in Conns, side \in Sides, o \in ShutOutcomes : DropHalf(c, side, o)

----------------------------------------------------------------------------
(***************************************************************************)
(* Header: from_str (common.rs).  A text is a sequence of bytes.           *)
(***************************************************************************)
Colon == 58
Space == 32
Texts == UNION {[1..k -> Bytes] : k \in 0..MaxLen}
\* The texts tokens are compared on.
ShortTexts == UNION {[1..k -> Bytes] : k \in 0..MaxTok}
\* The HTTPVersion(major, minor) values.
Versions == (0..MaxVer) \X (0..MaxVer)
NoHeader == [done |-> TRUE, some |-> FALSE, field |-> <<>>, value |-> <<>>]
NotParsed == [done |-> FALSE, some |-> FALSE, field |-> <<>>, value |-> <<>>]

\* The index of the first byte b of s, or 0.
RECURSIVE IndexFrom(_, _, _)
IndexFrom(s, b, k) ==
    IF k > Len(s) THEN 0
    ELSE IF s[k] = b THEN k
    ELSE IndexFrom(s, b, k + 1)

\* str::splitn(sep, count): the pieces of s between separators, splitting at
\* most count times (so up to count + 1 pieces); the last piece is the rest
\* of s.  "a:b:c".splitn(':', 2) is "a", "b", "c"; with count 1: "a", "b:c".
RECURSIVE splitn(_, _, _)
splitn(s, sep, count) ==
    LET k == IndexFrom(s, sep, 1)
    IN IF count = 0 \/ k = 0
       THEN <<s>>
       ELSE <<SubSeq(s, 1, k - 1)>> \o splitn(SubSeq(s, k + 1, Len(s)), sep, count - 1)

\* char::is_whitespace: the characters with the Unicode property White_Space,
\* among them the space, U+0009..U+000D, U+0085 and U+00A0.
is_whitespace(c) ==
    c = Space \/ (9 <= c /\ c <= 13) \/ c = 133 \/ c = 160

\* str::trim: s without its leading and trailing whitespace characters.
RECURSIVE trim_left(_)
trim_left(s) ==
    IF s # <<>> /\ is_whitespace(Head(s)) THEN trim_left(Tail(s)) ELSE s
RECURSIVE trim_right(_)
trim_right(s) ==
    IF s # <<>> /\ is_whitespace(s[Len(s)])
    THEN trim_right(SubSeq(s, 1, Len(s) - 1)) ELSE s
trim(s) == trim_right(trim_left(s))

\* str::as_bytes: the UTF-8 encoding of s, one byte for an ASCII character
\* and two bytes >= 0x80 for a character from U+0080 to U+07FF.
RECURSIVE as_bytes(_)
as_bytes(s) ==
    IF s = <<>> THEN <<>>
    ELSE (IF Head(s) < 128 THEN <<Head(s)>>
          ELSE <<192 + (Head(s) \div 64), 128 + (Head(s) % 64)>>)
         \o as_bytes(Tail(s))

\* to_ascii_opt: the bytes of s when all are ASCII, else nothing.
to_ascii_opt(s) ==
    IF \A k \in 1..Len(s) : s[k] < 128
    THEN [some |-> TRUE, val |-> s]
    ELSE [some |-> FALSE, val |-> <<>>]

\* FromStr for HeaderField
HeaderField_from_str(s) == to_ascii_opt(trim(s))

\* from_str refusing a header whose value is empty after trimming.
Header_from_str_needs_value(s) ==
    LET elems == splitn(s, Colon, 2)
    IN IF Len(elems) <= 1
       THEN NoHeader
       ELSE LET field == HeaderField_from_str(trim(elems[1]))
            IN IF ~field.some \/ trim(elems[2]) = <<>>
               THEN NoHeader
               ELSE [done |-> TRUE, some |-> TRUE, field |-> field.val,
                     value |-> trim(elems[2])]

\* FromStr for Header
Header_from_str(s) ==
    LET elems == splitn(s, Colon, 2)
    IN IF Len(elems) <= 1
       THEN NoHeader
       ELSE LET field == HeaderField_from_str(trim(elems[1]))
            IN IF ~field.some
               THEN NoHeader
               ELSE [done |-> TRUE, some |-> TRUE, field |-> field.val,
                     value |-> trim(elems[2])]

\* FromStr for Method
Method_from_str(s) == to_ascii_opt(s)

\* ASCII_LOWER_MAP[b]: an ASCII capital letter to its small letter, every
\* other byte to itself.
ASCII_LOWER_MAP(b) == IF 65 <= b /\ b <= 90 THEN b + 32 ELSE b

\* Ascii::eq_ignore_case
Ascii_eq_ignore_case(a, b) == ASCII_LOWER_MAP(a) = ASCII_LOWER_MAP(b)

\* <&[Ascii]>::eq_ignore_case:
\*   self.iter().zip(other.iter()).all(|(&a, &b)| a.eq_ignore_case(b))
\* zip stops at the end of the shorter slice.
eq_ignore_case(a, b) ==
    \A k \in 1..(IF Len(a) < Len(b) THEN Len(a) ELSE Len(b)) :
        Ascii_eq_ignore_case(a[k], b[k])

\* str::eq_ignore_ascii_case, on the bytes of both texts:
\*   self.len() == other.len() && (every pair of bytes equal under the map)
eq_ignore_ascii_case(a, b) ==
    /\ Len(as_bytes(a)) = Len(as_bytes(b))
    /\ \A k \in 1..Len(as_bytes(a)) :
          ASCII_LOWER_MAP(as_bytes(a)[k]) = ASCII_LOWER_MAP(as_bytes(b)[k])

\* PartialEq for HeaderField, for Method: a and b are the tokens' Vec<Ascii>.
HeaderField_eq(a, b) == eq_ignore_case(a, b)
Method_eq(a, b) == eq_ignore_case(a, b)

\* Equiv<S> for HeaderField, for Method: tok is the token, text the other text.
HeaderField_equiv(tok, text) == eq_ignore_ascii_case(text, tok)
Method_equiv(tok, text) == eq_ignore_ascii_case(text, tok)

NoToken == [kind |-> "none", some |-> FALSE, val |-> <<>>]
NoCmp == [kind |-> "none", op |-> "none", lhs |-> <<>>, rhs |-> <<>>, res |-> FALSE]
NoOrdering == [done |-> FALSE, eq |-> FALSE, lt |-> FALSE, cmp |-> "-",
               partial_cmp |-> "-"]

\* from_str::<Header>(input)
ParseHeader ==
    /\ ~parsed.done
    /\ parsed' = Header_from_str(input)
    /\ UNCHANGED <<input, token, other, cmp, versions, ordering>>
    /\ UNCHANGED <<serverVars, streamVars>>

\* from_str::<HeaderField>(input)
ParseField ==
    /\ token.kind = "none"
    /\ LET r == HeaderField_from_str(input)
       IN token' = [kind |-> "HeaderField", some |-> r.some, val |-> r.val]
    /\ UNCHANGED <<input, parsed, other, cmp, versions, ordering>>
    /\ UNCHANGED <<serverVars, streamVars>>

\* from_str::<Method>(input)
ParseMethod ==
    /\ token.kind = "none"
    /\ LET r == Method_from_str(input)
       IN token' = [kind |-> "Method", some |-> r.some, val |-> r.val]
    /\ UNCHANGED <<input, parsed, other, cmp, versions, ordering>>
    /\ UNCHANGED <<serverVars, streamVars>>

ParseNext == ParseHeader \/ ParseField \/ ParseMethod

\* The token of type kind that from_str makes of text s.
Token_from_str(kind, s) ==
    IF kind = "Method" THEN Method_from_str(s) ELSE HeaderField_from_str(s)

\* a == b on the two tokens of type kind made of input and of other.
CompareEq(kind) ==
    /\ cmp.kind = "none"
    /\ Token_from_str(kind, input).some /\ Token_from_str(kind, other).some
    /\ LET a == Token_from_str(kind, input).val
           b == Token_from_str(kind, other).val
       IN cmp' = [kind |-> kind, op |-> "eq", lhs |-> a, rhs |-> b,
                  res |-> IF kind = "Method" THEN Method_eq(a, b)
                          ELSE HeaderField_eq(a, b)]
    /\ UNCHANGED <<input, parsed, token, other, versions, ordering>>
    /\ UNCHANGED <<serverVars, streamVars>>

\* tok.equiv(&other) on the token of type kind made of input.
CompareEquiv(kind) ==
    /\ cmp.kind = "none"
    /\ Token_from_str(kind, input).some
    /\ LET a == Token_from_str(kind, input).val
       IN cmp' = [kind |-> kind, op |-> "equiv", lhs |-> a, rhs |-> other,
                  res |-> IF kind = "Method" THEN Method_equiv(a, other)
                          ELSE HeaderField_equiv(a, other)]
    /\ UNCHANGED <<input, parsed, token, other, versions, ordering>>
    /\ UNCHANGED <<serverVars, streamVars>>

EqNext ==
    \/ \E kind \in {"Method", "HeaderField"} : CompareEq(kind)
    \/ \E kind \in {"Method", "HeaderField"} : CompareEquiv(kind)

\* uint: partial_cmp / cmp of two numbers
uint_cmp(x, y) == IF x < y THEN "Less" ELSE IF x = y THEN "Equal" ELSE "Greater"

\* partial_cmp comparing the minor components first.
HTTPVersion_partial_cmp_minor_first(a, b) ==
    IF a[2] # b[2] THEN uint_cmp(a[2], b[2]) ELSE uint_cmp(a[1], b[1])

\* PartialOrd for HTTPVersion: partial_cmp (always Some)
HTTPVersion_partial_cmp(a, b) ==
    IF a[1] # b[1] THEN uint_cmp(a[1], b[1]) ELSE uint_cmp(a[2], b[2])

\* The derived Ord: cmp compares the fields in order of declaration and
\* answers with the first that is not Equal.
HTTPVersion_cmp(a, b) ==
    LET first == uint_cmp(a[1], b[1])
    IN IF first # "Equal" THEN first ELSE uint_cmp(a[2], b[2])

\* The derived PartialEq: every field equal.
HTTPVersion_eq(a, b) == a[1] = b[1] /\ a[2] = b[2]

\* PartialOrd::lt, the default method behind `a < b`.
HTTPVersion_lt(a, b) == HTTPVersion_partial_cmp(a, b) = "Less"

\* The two versions are compared with ==, <, cmp and partial_cmp.
CompareVersions ==
    /\ ~ordering.done
    /\ ordering' = [done |-> TRUE,
                    eq |-> HTTPVersion_eq(versions[1], versions[2]),
                    lt |-> HTTPVersion_lt(versions[1], versions[2]),
                    cmp |-> HTTPVersion_cmp(versions[1], versions[2]),
                    partial_cmp |-> HTTPVersion_partial_cmp(versions[1], versions[2])]
    /\ UNCHANGED <<input, parsed, token, other, cmp, versions>>
    /\ UNCHANGED <<serverVars, streamVars>>

VersionNext == CompareVersions

----------------------------------------------------------------------------
(***************************************************************************)
(* The specifications: one per part, the other parts at rest.              *)
(***************************************************************************)
Init ==
    /\ hstate = ServerStart.hstate
    /\ flagOf = ServerStart.flagOf
    /\ is_shutting_down = ServerStart.is_shutting_down
    /\ backlog = ServerStart.backlog
    /\ listening = ServerStart.listening
    /\ pc = ServerStart.pc
    /\ th = ServerStart.th
    /\ sdpc = ServerStart.sdpc
    /\ last = ServerStart.last
    /\ cstate = StreamStart.cstate
    /\ half = StreamStart.half
    /\ alive = StreamStart.alive
    /\ fds = StreamStart.fds
    /\ rd = StreamStart.rd
    /\ wr = StreamStart.wr
    /\ shuts = StreamStart.shuts
    /\ lastio = StreamStart.lastio
    /\ input = <<>>
    /\ parsed = NotParsed
    /\ token = NoToken
    /\ other = <<>>
    /\ cmp = NoCmp
    /\ versions = <<<<0, 0>>, <<0, 0>>>>
    /\ ordering = NoOrdering
Next == ServerNext
Spec == Init /\ [][Next]_vars

\* The texts from_str is called on.
ParseInit ==
    /\ hstate = ServerStart.hstate
    /\ flagOf = ServerStart.flagOf
    /\ is_shutting_down = ServerStart.is_shutting_down
    /\ backlog = ServerStart.backlog
    /\ listening = ServerStart.listening
    /\ pc = ServerStart.pc
    /\ th = ServerStart.th
    /\ sdpc = ServerStart.sdpc
    /\ last = ServerStart.last
    /\ cstate = StreamStart.cstate
    /\ half = StreamStart.half
    /\ alive = StreamStart.alive
    /\ fds = StreamStart.fds
    /\ rd = StreamStart.rd
    /\ wr = StreamStart.wr
    /\ shuts = StreamStart.shuts
    /\ lastio = StreamStart.lastio
    /\ input \in Texts
    /\ parsed = NotParsed
    /\ token = NoToken
    /\ other = <<>>
    /\ cmp = NoCmp
    /\ versions = <<<<0, 0>>, <<0, 0>>>>
    /\ ordering = NoOrdering

StreamSpec == Init /\ [][StreamNext]_vars

ParseSpec == ParseInit /\ [][ParseNext]_vars

\* The pairs of texts tokens are made of and compared on.
EqInit ==
    /\ hstate = ServerStart.hstate
    /\ flagOf = ServerStart.flagOf
    /\ is_shutting_down = ServerStart.is_shutting_down
    /\ backlog = ServerStart.backlog
    /\ listening = ServerStart.listening
    /\ pc = ServerStart.pc
    /\ th = ServerStart.th
    /\ sdpc = ServerStart.sdpc
    /\ last = ServerStart.last
    /\ cstate = StreamStart.cstate
    /\ half = StreamStart.half
    /\ alive = StreamStart.alive
    /\ fds = StreamStart.fds
    /\ rd = StreamStart.rd
    /\ wr = StreamStart.wr
    /\ shuts = StreamStart.shuts
    /\ lastio = StreamStart.lastio
    /\ input \in ShortTexts
    /\ parsed = NotParsed
    /\ token = NoToken
    /\ other \in ShortTexts
    /\ cmp = NoCmp
    /\ versions = <<<<0, 0>>, <<0, 0>>>>
    /\ ordering = NoOrdering

EqSpec == EqInit /\ [][EqNext]_vars

\* The pairs of versions that are compared.
VersionInit ==
    /\ hstate = ServerStart.hstate
    /\ flagOf = ServerStart.flagOf
    /\ is_shutting_down = ServerStart.is_shutting_down
    /\ backlog = ServerStart.backlog
    /\ listening = ServerStart.listening
    /\ pc = ServerStart.pc
    /\ th = ServerStart.th
    /\ sdpc = ServerStart.sdpc
    /\ last = ServerStart.last
    /\ cstate = StreamStart.cstate
    /\ half = StreamStart.half
    /\ alive = StreamStart.alive
    /\ fds = StreamStart.fds
    /\ rd = StreamStart.rd
    /\ wr = StreamStart.wr
    /\ shuts = StreamStart.shuts
    /\ lastio = StreamStart.lastio
    /\ input = <<>>
    /\ parsed = NotParsed
    /\ token = NoToken
    /\ other = <<>>
    /\ cmp = NoCmp
    /\ versions \in [1..2 -> Versions]
    /\ ordering = NoOrdering

VersionSpec == VersionInit /\ [][VersionNext]_vars

\* The listener with no client ever connecting and every split succeeding:
\* the acceptor threads and the shutdowns alone.  A thread inside the accept primitive returns once a
\* connection is queued, and a shutdown() that stored the flag runs on.
QuietNext ==
    \/ \E h, n \in Handles, ok \in BOOLEAN : TryClone(h, n, ok)
    \/ \E t \in Threads, h \in Handles : AcceptStart(t, h)
    \/ \E t \in Threads : AcceptReturn(t, TRUE)
    \/ \E t \in Threads, e \in IoErrors : AcceptFail(t, e)
    \/ \E h \in Handles, mode \in {"explicit", "drop"} : ShutdownStore(h, mode)
    \/ \E h \in Handles, o \in DialOutcomes : ShutdownDial(h, o)

FairSpec ==
    /\ Init
    /\ [][QuietNext]_vars
    /\ \A t \in Threads : WF_vars(AcceptReturn(t, TRUE))
    /\ \A h \in Handles : WF_vars(\E o \in DialOutcomes : ShutdownDial(h, o))

\* The listener with one acceptor thread: thread 1 calls accept(), and the
\* controllers are duplicated, shut down and released by others.  The accept
\* primitive returns once a connection is queued, and a shutdown() that
\* stored the flag runs on.
SoloNext ==
    \/ \E h, n \in Handles, ok \in BOOLEAN : TryClone(h, n, ok)
    \/ ClientConnect
    \/ \E h \in Handles : AcceptStart(1, h)
    \/ \E dupOk \in BOOLEAN : AcceptReturn(1, dupOk)
    \/ \E e \in IoErrors : AcceptFail(1, e)
    \/ \E h \in Handles, mode \in {"explicit", "drop"} : ShutdownStore(h, mode)
    \/ \E h \in Handles, o \in DialOutcomes : ShutdownDial(h, o)

SoloSpec ==
    /\ Init
    /\ [][SoloNext]_vars
    /\ WF_vars(\E dupOk \in BOOLEAN : AcceptReturn(1, dupOk))
    /\ \A h \in Handles : WF_vars(\E o \in DialOutcomes : ShutdownDial(h, o))

----------------------------------------------------------------------------
(***************************************************************************)
(* Properties of the listener / shutdown controller.                       *)
(***************************************************************************)
\* An accept() call starts on handle h in this step: a thread enters the
\* accept primitive on h, or the call returns at the flag check.
StartsAccept(h) ==
    \/ \E t \in Threads : pc[t] = "idle" /\ pc'[t] = "accepting" /\ th'[t] = h
    \/ pc' = pc /\ last' # last /\ last'.op = "accept" /\ last'.h = h
\* shutdown() returned Ok: its self-dial was made and closed.
ShutdownSucceeded == last.op \in {"explicit", "drop"} /\ last.res.tag = "Ok"

\* C1: an accept() call that was inside the accept primitive and is woken by
\* the self-dial of shutdown() returns the ShuttingDown error; it never hands
\* the self-dial connection to its caller as a client connection.
C1_WokenAcceptReturnsShuttingDown ==
    (last.op = "accept" /\ last.raw = "selfdial" /\ last.res.tag # "Panic")
        => last.res.tag = "ShuttingDown"

\* C2: with no client connecting, once one shutdown() has succeeded every
\* thread inside accept() eventually returns: none stays blocked for ever.
C2_ShutdownWakesEveryAccept ==
    ShutdownSucceeded ~> (\A t \in Threads : pc[t] # "accepting")

\* C3: an accept() call that starts when the flag is set returns ShuttingDown
\* at once: no thread enters the accept primitive, and no connection leaves
\* the listener's queue.
C3_FreshAcceptFailsFast ==
    [][\A h \in Handles :
          (StartsAccept(h) /\ LoadFlag(h))
              => /\ pc' = pc
                 /\ backlog' = backlog
                 /\ last'.res.tag = "ShuttingDown"]_vars
\* C3's case: accept() returned ShuttingDown while a connection is queued.
C3_Witness ==
    /\ last.op = "accept" /\ last.res.tag = "ShuttingDown"
    /\ backlog # <<>>

\* Every controller points to the flag of bind(), and a shutdown() past its
\* store, or a released controller, means that flag is set.
SameFlag ==
    /\ \A h \in Handles : hstate[h] # "free" => flagOf[h] = flagOf[1]
    /\ \A g \in Handles :
          (sdpc[g] # "none" \/ hstate[g] = "dropped") => LoadFlag(g)

\* C4: every controller made from the one bind() through try_clone reads the
\* same flag, and once shutdown() has stored the flag through any of them
\* (called, or run by a release), an accept() starting on any of them fails
\* with ShuttingDown.
C4_SharedShutdown ==
    /\ []SameFlag
    /\ [][\A h \in Handles :
            ((\E g \in Handles : hstate[g] # "free" /\ LoadFlag(g)) /\ StartsAccept(h))
                => /\ pc' = pc
                   /\ last'.res.tag = "ShuttingDown"]_vars
\* C4's case: a duplicate was released and accept() on the controller it was
\* made from, still held, returned ShuttingDown.
C4_Witness ==
    /\ last.op = "accept" /\ last.res.tag = "ShuttingDown"
    /\ hstate[last.h] = "live"
    /\ \E g \in Handles : g > last.h /\ hstate[g] = "dropped"

\* C7: a release runs shutdown() (the flag is set), completes and observes
\* no error whichever step failed; an explicit shutdown() returns the error
\* of the failing step to its caller: LocalAddr, Connect or Shutdown.
C7_DropDiscardsShutdownError ==
    /\ \A h \in Handles : hstate[h] = "dropped" => LoadFlag(h)
    /\ \A h \in Handles :
          sdpc[h] = "drop" => ENABLED (\E o \in DialOutcomes : ShutdownDial(h, o))
    /\ last.op = "drop" =>
          /\ last.seen = ShutRes("Unit", "-")
          /\ hstate[last.h] = "dropped"
    /\ last.op = "explicit" =>
          /\ last.seen = last.res
          /\ hstate[last.h] = "live"
          /\ last.res.tag = CASE Len(last.raw) = 1 -> "LocalAddr"
                              [] Len(last.raw) = 2 -> "Connect"
                              [] OTHER -> IF last.res.err = "-" THEN "Ok"
                                          ELSE "Shutdown"
\* C7's case: a release whose self-dial could not connect completed.
C7_Witness ==
    /\ last.op = "drop" /\ last.res.tag = "Connect"
    /\ hstate[last.h] = "dropped"

\* C8: when the accept primitive fails with an io::Error, accept() returns
\* AcceptError::Accept with that error and changes nothing else: flag,
\* listener, handles and queue are as before and the thread may call again.
C8_AcceptErrorIsLocal ==
    [][\A t \in Threads :
          (pc[t] = "accepting" /\ pc'[t] # "accepting" /\ backlog' = backlog)
              => /\ last'.op = "accept" /\ last'.h = th[t]
                 /\ last'.raw \in IoErrors
                 /\ last'.res.tag = "Accept" /\ last'.res.err = last'.raw
                 /\ pc'[t] = "idle"
                 /\ is_shutting_down' = is_shutting_down
                 /\ listening' = listening
                 /\ hstate' = hstate /\ flagOf' = flagOf /\ sdpc' = sdpc]_vars
\* C8's case: accept() returned Accept(e2) with the flag unset, the listener
\* open and a connection queued for the next call.
C8_Witness ==
    /\ last.op = "accept" /\ last.res.tag = "Accept" /\ last.res.err = "e2"
    /\ ~LoadFlag(last.h) /\ listening /\ hstate[last.h] = "live"
    /\ backlog # <<>>

\* C15: with a single acceptor thread, once a shutdown() on another
\* controller has succeeded (its self-dial was queued), the thread does not
\* stay inside the accept primitive: the primitive returns, whether the
\* thread was parked in it before the self-dial or passed the flag check
\* before the store and entered it after the self-dial.
C15_SoloAcceptorWakes ==
    (ShutdownSucceeded /\ pc[1] = "accepting") ~> (pc[1] # "accepting")
\* C15's case: the single acceptor passed the flag check, and its accept
\* primitive returned the self-dial connection of a shutdown().
C15_Witness ==
    /\ last.op = "accept" /\ last.raw = "selfdial" /\ last.res.tag = "Ok"
    /\ pc[1] = "idle" /\ LoadFlag(last.h)
    /\ backlog = <<>>

\* The system calls shutdown() makes after the store, in their order.
DialSteps == <<"local_addr", "connect", "shutdown">>

\* C16: shutdown() stores the flag first, then looks up the local address,
\* connects and closes the connection, in this order, stopping at the first
\* step that fails and returning LocalAddr, Connect or Shutdown for it; the
\* flag is set whatever the outcome, so an accept() starting after a
\* shutdown() that returned an error fails with ShuttingDown.
C16_ShutdownStepsInOrder ==
    /\ [](\A h \in Handles : sdpc[h] # "none" => LoadFlag(h))
    /\ [](last.op \in {"explicit", "drop"} =>
            /\ last.raw = SubSeq(DialSteps, 1, Len(last.raw))
            /\ last.res.tag = "LocalAddr" <=> Len(last.raw) = 1
            /\ last.res.tag = "Connect" <=> Len(last.raw) = 2
            /\ last.res.tag \in {"Shutdown", "Ok"} <=> Len(last.raw) = 3
            /\ last.res.tag = "Ok" <=> last.res.err = "-"
            /\ LoadFlag(last.h))
    /\ [][\A h \in Handles :
            (last.op = "explicit" /\ last.res.tag # "Ok" /\ StartsAccept(h))
                => /\ pc' = pc
                   /\ last'.res.tag = "ShuttingDown"]_vars
\* C16's case: an explicit shutdown() stopped at the failed connect; the flag
\* is set and a thread that entered accept() before is still inside.
C16_Witness ==
    /\ last.op = "explicit" /\ last.res.tag = "Connect"
    /\ last.raw = <<"local_addr", "connect">>
    /\ LoadFlag(last.h)
    /\ \E t \in Threads : pc[t] = "accepting"

\* C17: the flag is unset when bind() returns and no step unsets it; every
\* controller reads the flag of bind(); an accept() that returned
\* ShuttingDown read it set, and once it is set every accept() starting on
\* any controller returns ShuttingDown and enters no accept primitive.
C17_FlagMonotonic ==
    /\ \A c \in Cells : ~is_shutting_down[c]
    /\ [][\A c \in Cells : is_shutting_down[c] => is_shutting_down'[c]]_vars
    /\ [](\A h \in Handles : hstate[h] # "free" => flagOf[h] = flagOf[1])
    /\ []((last.op = "accept" /\ last.res.tag = "ShuttingDown")
             => is_shutting_down[flagOf[1]])
    /\ [][\A h \in Handles :
            (is_shutting_down[flagOf[1]] /\ StartsAccept(h))
                => /\ last'.op = "accept"
                   /\ last'.res.tag = "ShuttingDown"
                   /\ last'.res.conn = NoConn
                   /\ pc' = pc]_vars
\* C17's case: the flag was stored by two shutdowns (one controller called
\* shutdown(), the other was released) and an accept() after them returned
\* ShuttingDown, while a thread that started before is still inside.
C17_Witness ==
    /\ last.op = "accept" /\ last.res.tag = "ShuttingDown"
    /\ \E g \in Handles : hstate[g] = "dropped"
    /\ \E t \in Threads : pc[t] = "accepting"

\* C18: every accept() call ends by returning a connection or an AcceptError:
\* no thread is aborted inside accept(), also when the second handle for the
\* split cannot be obtained.
C18_AcceptNeverAborts ==
    /\ \A t \in Threads : pc[t] # "panicked"
    /\ last.op = "accept" => last.res.tag \in {"Ok", "Accept", "ShuttingDown"}

----------------------------------------------------------------------------
(***************************************************************************)
(* Properties of the split-stream wrapper (StreamSpec).                    *)
(***************************************************************************)
ReadHalf == [close_read |-> TRUE, close_write |-> FALSE, made |-> TRUE]
WriteHalf == [close_read |-> FALSE, close_write |-> TRUE, made |-> TRUE]

\* The instances on each connection: the pair of a split, or none.
SplitPair ==
    \A c \in Conns :
        /\ cstate[c] = "split" => half[c]["read"] = ReadHalf /\ half[c]["write"] = WriteHalf
        /\ cstate[c] # "split" => \A side \in Sides : ~half[c][side].made
        /\ \A side \in Sides :
              half[c][side].made => half[c][side].close_read # half[c][side].close_write
        /\ \A side \in alive[c] : half[c][side].made

\* C5: a split that returns makes exactly two instances on the connection,
\* (close_read, close_write) = (true, false) and (false, true); a connection
\* not split has none; no instance has both responsibilities or neither, and
\* no step changes the responsibilities of an instance once made.
C5_SplitResponsibilities ==
    /\ []SplitPair
    /\ [][\A c \in Conns, side \in Sides :
             half[c][side].made => half'[c][side] = half[c][side]]_vars
\* C5's case: a split connection after a flush, its read half already released.
C5_Witness ==
    \E c \in Conns :
        /\ cstate[c] = "split" /\ alive[c] = {"write"}
        /\ lastio.c = c /\ lastio.op = "flush"

\* C6 as stated: a release closes the direction the half owns even when its
\* shutdown fails: with only the read half released the read direction is
\* closed and the write direction open, and the other way round; with both
\* released both are closed.
C6_ReleaseClosesOwnedDirection ==
    \A c \in Conns :
        cstate[c] = "split" =>
            /\ alive[c] = {"write"} => ~rd[c] /\ wr[c]
            /\ alive[c] = {"read"} => ~wr[c] /\ rd[c]
            /\ alive[c] = {} => ~rd[c] /\ ~wr[c]

\* C6, amended: a release calls shutdown on the direction the half owns and
\* on no other, exactly once, and completes whatever the outcome.  With only
\* the read half released the write direction is open, and the read direction
\* is closed if that shutdown succeeded and as it was if it failed; the same
\* for the write half; with both released both directions are closed.
C6_ReleaseShutsOwnedDirection ==
    \A c \in Conns :
        cstate[c] = "split" =>
            /\ alive[c] = Sides =>
                  /\ shuts[c]["Read"].n = 0 /\ shuts[c]["Write"].n = 0
                  /\ rd[c] /\ wr[c]
            /\ alive[c] = {"write"} =>
                  /\ shuts[c]["Read"].n = 1 /\ shuts[c]["Write"].n = 0
                  /\ wr[c]
                  /\ rd[c] <=> shuts[c]["Read"].out # "ok"
            /\ alive[c] = {"read"} =>
                  /\ shuts[c]["Read"].n = 0 /\ shuts[c]["Write"].n = 1
                  /\ rd[c]
                  /\ wr[c] <=> shuts[c]["Write"].out # "ok"
            /\ alive[c] = {} =>
                  /\ shuts[c]["Read"].n = 1 /\ shuts[c]["Write"].n = 1
                  /\ ~rd[c] /\ ~wr[c]
\* C6's case: the read half was released and its shutdown failed; the write
\* half, alone now, wrote.
C6_Witness ==
    \E c \in Conns :
        /\ cstate[c] = "split" /\ alive[c] = {"write"}
        /\ shuts[c]["Read"].out = "e1"
        /\ lastio.c = c /\ lastio.side = "write" /\ lastio.op = "write"
        /\ lastio.alone /\ lastio.ret = "ok1"

\* The last data-path call made one call on the socket and returned its answer.
Forwarded ==
    lastio.op # "none" => lastio.calls = 1 /\ lastio.ret = lastio.raw

\* C9: peer_addr, read, write and flush call the socket once and return its
\* answer unchanged, a failure too; the call leaves the responsibilities of
\* the halves and both directions as they were.
C9_DataPathForwards ==
    /\ []Forwarded
    /\ [][lastio' # lastio =>
             UNCHANGED <<cstate, half, alive, fds, rd, wr, shuts>>]_vars
\* C9's case: a read that failed with e2 returned e2.
C9_Witness ==
    /\ lastio.op = "read" /\ lastio.raw = "e2" /\ lastio.ret = "e2"
    /\ lastio.calls = 1

----------------------------------------------------------------------------
(***************************************************************************)
(* Properties of the header parser (ParseSpec).                            *)
(***************************************************************************)
HasColon(s) == IndexFrom(s, Colon, 1) # 0
BeforeFirstColon(s) == SubSeq(s, 1, IndexFrom(s, Colon, 1) - 1)
AfterFirstColon(s) == SubSeq(s, IndexFrom(s, Colon, 1) + 1, Len(s))
IsAscii(s) == \A k \in 1..Len(s) : s[k] < 128

\* C10: for a text with a colon whose part before the first colon is ASCII,
\* from_str gives the header whose field is that part, trimmed, and whose
\* value is everything after the first colon, trimmed, further colons
\* included.
C10_SplitsOnFirstColonOnly ==
    (parsed.done /\ HasColon(input) /\ IsAscii(BeforeFirstColon(input)))
        => /\ parsed.some
           /\ parsed.field = trim(BeforeFirstColon(input))
           /\ parsed.value = trim(AfterFirstColon(input))

\* C11: from_str gives no header exactly when the text has no colon or the
\* field candidate (the text before the first colon, trimmed) has a character
\* outside ASCII; in every other case it gives a header, an empty value
\* included.  A failure is the plain `None`: nothing else is returned.
C11_NoHeaderExactlyWhen ==
    parsed.done =>
        /\ parsed.some <=>
              (HasColon(input) /\ IsAscii(trim(BeforeFirstColon(input))))
        /\ ~parsed.some => parsed = NoHeader
        /\ (HasColon(input) /\ IsAscii(trim(BeforeFirstColon(input)))
               /\ trim(AfterFirstColon(input)) = <<>>)
              => parsed.some /\ parsed.value = <<>>
\* C11's case: a text with a field and a value of whitespace only was parsed
\* to a header with an empty value.
C11_Witness ==
    /\ parsed.done /\ parsed.some
    /\ parsed.field # <<>> /\ parsed.value = <<>>
    /\ AfterFirstColon(input) # <<>>

\* C12: from_str::<HeaderField> and from_str::<Method> give no token when the
\* text has a character outside ASCII (bytes >= 0x80), wherever it sits, and
\* a token for every text that is all ASCII.
C12_NonAsciiYieldsNoToken ==
    token.kind # "none" => (token.some <=> IsAscii(input))

----------------------------------------------------------------------------
(***************************************************************************)
(* Properties of the tokens (EqSpec) and of the versions (VersionSpec).    *)
(***************************************************************************)
\* Texts a and b have the same length and differ in ASCII letter case only.
SameIgnoringCase(a, b) ==
    /\ Len(a) = Len(b)
    /\ \A k \in 1..Len(a) :
          \/ a[k] = b[k]
          \/ a[k] \in 65..90 /\ b[k] = a[k] + 32
          \/ b[k] \in 65..90 /\ a[k] = b[k] + 32
\* == on the tokens of the type compared last.
TokenEq(a, b) == IF cmp.kind = "Method" THEN Method_eq(a, b) ELSE HeaderField_eq(a, b)

\* C13: two method tokens, and two header-field tokens, are equal exactly
\* when they have the same length and the same bytes up to ASCII letter
\* case, so that equality is symmetric and transitive; a token is equivalent
\* to exactly the texts that differ from its own text in ASCII letter case
\* only.
C13_EqualityIgnoresCaseOnly ==
    /\ cmp.op = "eq" =>
          /\ cmp.res <=> SameIgnoringCase(cmp.lhs, cmp.rhs)
          /\ cmp.res <=> TokenEq(cmp.rhs, cmp.lhs)
          /\ \A z \in ShortTexts :
                (IsAscii(z) /\ cmp.res /\ TokenEq(cmp.rhs, z)) => TokenEq(cmp.lhs, z)
    /\ cmp.op = "equiv" => (cmp.res <=> SameIgnoringCase(cmp.lhs, cmp.rhs))

\* C14: versions are ordered by major first and minor second: a < b exactly
\* when a's major is smaller, or the majors are equal and a's minor is
\* smaller; partial_cmp (written by hand) and cmp (derived) answer the same
\* for every pair, and a == b exactly when both components are equal.
C14_VersionOrder ==
    ordering.done =>
        LET a == versions[1]
            b == versions[2]
        IN /\ ordering.lt <=> (a[1] < b[1] \/ (a[1] = b[1] /\ a[2] < b[2]))
           /\ ordering.partial_cmp = ordering.cmp
           /\ ordering.partial_cmp \in {"Less", "Equal", "Greater"}
           /\ ordering.eq <=> (a[1] = b[1] /\ a[2] = b[2])
           /\ ordering.eq <=> (ordering.cmp = "Equal")
           /\ (ordering.cmp = "Greater") <=>
                 (b[1] < a[1] \/ (b[1] = a[1] /\ b[2] < a[2]))
\* C14's case: (1, 2) was compared with (2, 0) and found smaller, the minor
\* components being the other way round.
C14_Witness ==
    /\ ordering.done /\ ordering.lt
    /\ versions[1] = <<1, 2>> /\ versions[2] = <<2, 0>>

\* C19: a text with a colon whose field part is empty after trimming is
\* accepted: from_str gives a header with an empty field and, as value, the
\* trimmed rest of the text after that colon.
C19_EmptyFieldAccepted ==
    (parsed.done /\ HasColon(input) /\ trim(BeforeFirstColon(input)) = <<>>)
        => /\ parsed.some
           /\ parsed.field = <<>>
           /\ parsed.value = trim(AfterFirstColon(input))

=============================================================================
